---- MODULE Spec2Model ----
(***************************************************************************)
(* Model of the iOS Appium path extractor:                                 *)
(*   - extract_paths.py: get_xpath / find_parent, classify_element,        *)
(*     get_ios_class_chain_candidates, create_unique_key and the           *)
(*     extraction run of main();                                           *)
(*   - "Page Source Appium Saver/save_app_pages.py": compute_filtered_hash *)
(*     and the capture loop.                                               *)
(*                                                                         *)
(* A parsed snapshot is a sequence of element records                      *)
(*   [tag, attrib, parent]                                                 *)
(* where attrib is the ordered list of <<key, value>> pairs of the element *)
(* (xml.etree keeps attributes in document order), parent is the index of  *)
(* the parent element (0: none) and the children of an element are the     *)
(* elements naming it as parent, in index order.  Element 1 is the root.   *)
(* An element is identified by its index: xml.etree elements define no     *)
(* __eq__, so ==, != , `in` and list.index compare identities.             *)
(* Strings are sequences of string tokens; concatenation is \o.            *)
(***************************************************************************)
EXTENDS Naturals, Sequences, FiniteSets, TLC

VARIABLES
    pc,                      \* position of the running script
    tree, element, xpath,    \* get_xpath: the heap of elements, the argument, the result
    elem, classification, candidates,   \* per-element functions: argument and results
    src1, src2, digest1, digest2,       \* compute_filtered_hash on two page sources
    saved_hashes, page_count, files, observed,   \* capture loop
    listing, position, master_interactive_set, master_interactive_items,
    reports, master_file     \* extraction run

vars == <<pc, tree, element, xpath, elem, classification, candidates,
          src1, src2, digest1, digest2,
          saved_hashes, page_count, files, observed,
          listing, position, master_interactive_set, master_interactive_items,
          reports, master_file>>

xpathVars == <<tree, element, xpath>>
elemVars == <<elem, classification, candidates>>
hashVars == <<src1, src2, digest1, digest2>>
captureVars == <<saved_hashes, page_count, files, observed>>
extractVars == <<listing, position, master_interactive_set,
                 master_interactive_items, reports, master_file>>

----------------------------------------------------------------------------
(* Bounds *)

MaxNodes == 3

----------------------------------------------------------------------------
(* Generic helpers *)

Range(s) == {s[i] : i \in 1..Len(s)}

Indices(s) == [i \in 1..Len(s) |-> i]

RECURSIVE Reverse(_)
Reverse(s) == IF s = <<>> THEN <<>> ELSE Reverse(Tail(s)) \o <<Head(s)>>

RECURSIVE Join(_)
Join(parts) == IF parts = <<>> THEN <<>> ELSE Head(parts) \o Join(Tail(parts))

\* position of the first occurrence of x in s (list.index), 0 when absent
IndexOf(s, x) ==
    IF \E i \in 1..Len(s) : s[i] = x
    THEN CHOOSE i \in 1..Len(s) : s[i] = x /\ \A j \in 1..(i - 1) : s[j] # x
    ELSE 0

----------------------------------------------------------------------------
(* xml.etree element access *)

None == 0

Element(tag, attrib, parent) == [tag |-> tag, attrib |-> attrib, parent |-> parent]

\* list(parent): the children of element p, in document order
Children(t, p) == SelectSeq(Indices(t), LAMBDA i : t[i].parent = p)

\* root.iter(): the elements of the subtree of n, in document (pre-)order
RECURSIVE Walk(_, _)
Walk(t, stack) ==
    IF stack = <<>> THEN <<>>
    ELSE <<Head(stack)>> \o Walk(t, Children(t, Head(stack)) \o Tail(stack))

Iter(t, n) == Walk(t, <<n>>)

\* "key in elem.attrib"
HasAttr(attrib, key) == \E i \in 1..Len(attrib) : attrib[i][1] = key

\* elem.attrib.get(key, default)
AttrGet(attrib, key, default) ==
    IF HasAttr(attrib, key)
    THEN attrib[CHOOSE i \in 1..Len(attrib) : attrib[i][1] = key][2]
    ELSE default

----------------------------------------------------------------------------
(* extract_paths.py: find_parent, get_xpath *)

find_parent(t, root, child) ==
    LET hits == SelectSeq(Iter(t, root),
                          LAMBDA e : child \in Range(Children(t, e)))
    IN  IF hits = <<>> THEN None ELSE Head(hits)

\* f"/{current.tag}[{index}]"
IndexedSegment(tag, index) == <<"/", tag, "[", ToString(index), "]">>

\* the while loop of get_xpath; xml.etree elements have no getparent, so the
\* parent always comes from find_parent
RECURSIVE XPathLoop(_, _, _, _)
XPathLoop(t, root, current, segments) ==
    IF current = None \/ current = root THEN segments
    ELSE LET parent == find_parent(t, root, current)
         IN  IF parent = None THEN segments
             ELSE LET siblings == SelectSeq(Children(t, parent),
                                            LAMBDA e : t[e].tag = t[current].tag)
                      index == IndexOf(siblings, current)
                  IN  XPathLoop(t, root, parent,
                                Append(segments, IndexedSegment(t[current].tag, index)))

get_xpath(t, el, root) ==
    IF el = root THEN <<"/", t[root].tag>>
    ELSE Join(Reverse(XPathLoop(t, root, el, <<>>)))

----------------------------------------------------------------------------
(* Idle values of the variables a specification does not use *)

IdleXPath == tree = <<>> /\ element = 0 /\ xpath = <<>>
IdleElem == elem = Element("", <<>>, 0) /\ classification = "" /\ candidates = <<>>
IdleHash == src1 = <<>> /\ src2 = <<>> /\ digest1 = <<>> /\ digest2 = <<>>
IdleCapture == saved_hashes = {} /\ page_count = 0 /\ files = <<>> /\ observed = <<>>
IdleExtract ==
    /\ listing = <<>>
    /\ position = 0
    /\ master_interactive_set = {}
    /\ master_interactive_items = <<>>
    /\ reports = <<>>
    /\ master_file = <<>>

----------------------------------------------------------------------------
(* Specification SpecXPath: get_xpath applied to an element of a heap that  *)
(* holds the tree of the root and, possibly, detached elements.            *)

XPathTags == {"root", "A", "B"}

\* parent vectors: element 1 is the root; a later element hangs under an
\* earlier one or is detached (parent None)
ParentVectors(n) == {p \in [1..n -> 0..n] : p[1] = 0 /\ \A i \in 2..n : p[i] < i}

Heaps(n, tags) ==
    {[i \in 1..n |-> Element(tg[i], <<>>, p[i])] :
        tg \in [1..n -> tags], p \in ParentVectors(n)}

XPathHeaps == UNION {Heaps(n, XPathTags) : n \in 1..MaxNodes}

InitXPath ==
    /\ pc = "xpath_call"
    /\ tree \in XPathHeaps
    /\ element \in 1..Len(tree)
    /\ xpath = <<>>
    /\ IdleElem /\ IdleHash /\ IdleCapture /\ IdleExtract

CallGetXPath ==
    /\ pc = "xpath_call"
    /\ xpath' = get_xpath(tree, element, 1)
    /\ pc' = "xpath_done"
    /\ UNCHANGED <<tree, element, elemVars, hashVars, captureVars, extractVars>>

NextXPath == CallGetXPath

SpecXPath == InitXPath /\ [][NextXPath]_vars

\* the elements reachable from the root
Reachable(t) == Range(Iter(t, 1))

\* rank of element i among the children of its parent that carry its tag
TagRank(t, i) ==
    Cardinality({j \in 1..i : t[j].parent = t[i].parent /\ t[j].tag = t[i].tag})

\* the path the contract describes: /root_tag, then one indexed segment per
\* element on the way down
RECURSIVE ContractPath(_, _)
ContractPath(t, i) ==
    IF i = 1 THEN <<"/", t[1].tag>>
    ELSE ContractPath(t, t[i].parent) \o IndexedSegment(t[i].tag, TagRank(t, i))

\* C4: for every element reachable from the root, get_xpath returns
\* /root_tag followed by one tag[k] segment per element on the way down, k
\* the 1-based rank among the same-tag children of the parent.
C4_PathFromRoot ==
    (pc = "xpath_done" /\ element \in Reachable(tree))
        => xpath = ContractPath(tree, element)

\* what the code returns for an element below the root: the same path
\* without the leading /root_tag segment
RECURSIVE RelativePath(_, _)
RelativePath(t, i) ==
    IF i = 1 THEN <<>>
    ELSE RelativePath(t, t[i].parent) \o IndexedSegment(t[i].tag, TagRank(t, i))

C4_CodePath ==
    (pc = "xpath_done" /\ element \in Reachable(tree))
        => xpath = (IF element = 1 THEN <<"/", tree[1].tag>>
                    ELSE RelativePath(tree, element))

\* a string that reads as a path: the empty string or one starting with "/"
IsPathString(s) == s = <<>> \/ s[1] = "/"

\* C7: for an element not reachable from the root get_xpath signals a
\* lookup failure and does not return an empty, partial or wrong path string.
C7_DetachedSignalsFailure ==
    (pc = "xpath_done" /\ element \notin Reachable(tree))
        => ~IsPathString(xpath)

C7_CodeReturnsEmpty ==
    (pc = "xpath_done" /\ element \notin Reachable(tree)) => xpath = <<>>

----------------------------------------------------------------------------
(* extract_paths.py: INTERACTIVE_TAGS, classify_element,                    *)
(* get_ios_class_chain_candidates, create_unique_key                        *)

INTERACTIVE_TAGS ==
    {"XCUIElementTypeButton", "XCUIElementTypeLink", "XCUIElementTypeCell",
     "XCUIElementTypeStaticText", "XCUIElementTypeMenuItem",
     "XCUIElementTypeCheckBox", "XCUIElementTypeSwitch"}

\* str.lower() on the attribute values the model uses
Lower(s) ==
    CASE s = "TRUE" -> "true"
      [] s = "True" -> "true"
      [] s = "FALSE" -> "false"
      [] s = "XML" -> "xml"
      [] OTHER -> s

\* mutant: the comparison with "true" made case-sensitive
classify_element_case_sensitive(el) ==
    LET enabled == IF ~HasAttr(el.attrib, "enabled") THEN TRUE
                   ELSE AttrGet(el.attrib, "enabled", "") = "true"
        visible == IF ~HasAttr(el.attrib, "visible") THEN TRUE
                   ELSE AttrGet(el.attrib, "visible", "") = "true"
    IN  IF el.tag \in INTERACTIVE_TAGS /\ enabled /\ visible
        THEN "Interactive" ELSE "Non-Interactive"

classify_element(el) ==
    LET tag == el.tag
        enabled_read == Lower(AttrGet(el.attrib, "enabled", "")) = "true"
        visible_read == Lower(AttrGet(el.attrib, "visible", "")) = "true"
        enabled == IF ~HasAttr(el.attrib, "enabled") THEN TRUE ELSE enabled_read
        visible == IF ~HasAttr(el.attrib, "visible") THEN TRUE ELSE visible_read
    IN  IF tag \in INTERACTIVE_TAGS /\ enabled /\ visible
        THEN "Interactive" ELSE "Non-Interactive"

\* truth value of elem.attrib.get(key): None and "" are false
Truthy(attrib, key) == HasAttr(attrib, key) /\ AttrGet(attrib, key, "") # ""

\* mutant: the label candidate emitted whenever there is a label
candidates_label_always(el) ==
    LET tag == el.tag
        name == AttrGet(el.attrib, "name", "")
        label == AttrGet(el.attrib, "label", "")
        value == AttrGet(el.attrib, "value", "")
    IN  (IF Truthy(el.attrib, "name")
         THEN <<<<"**/", tag, "[@name='", name, "']">>>> ELSE <<>>)
        \o (IF Truthy(el.attrib, "label")
            THEN <<<<"**/", tag, "[@label='", label, "']">>>> ELSE <<>>)
        \o (IF Truthy(el.attrib, "value")
            THEN <<<<"**/", tag, "[@value='", value, "']">>>> ELSE <<>>)
        \o (IF Truthy(el.attrib, "name") /\ Truthy(el.attrib, "label")
            THEN <<<<"**/", tag, "[@name='", name, "' and @label='", label, "']">>>>
            ELSE <<>>)

get_ios_class_chain_candidates(el) ==
    LET tag == el.tag
        name == AttrGet(el.attrib, "name", "")
        label == AttrGet(el.attrib, "label", "")
        value == AttrGet(el.attrib, "value", "")
        has_name == Truthy(el.attrib, "name")
        has_label == Truthy(el.attrib, "label")
        has_value == Truthy(el.attrib, "value")
    IN  (IF has_name
         THEN <<<<"**/", tag, "[@name='", name, "']">>>> ELSE <<>>)
        \o (IF has_label /\ (~has_name \/ label # name)
            THEN <<<<"**/", tag, "[@label='", label, "']">>>> ELSE <<>>)
        \o (IF has_value
            THEN <<<<"**/", tag, "[@value='", value, "']">>>> ELSE <<>>)
        \o (IF has_name /\ has_label
            THEN <<<<"**/", tag, "[@name='", name, "' and @label='", label, "']">>>>
            ELSE <<>>)

\* mutant: the key leaves out the position attributes
key_without_position(el) ==
    <<el.tag,
      AttrGet(el.attrib, "name", ""), AttrGet(el.attrib, "label", ""),
      AttrGet(el.attrib, "value", "")>>

create_unique_key(el) ==
    <<el.tag,
      AttrGet(el.attrib, "name", ""), AttrGet(el.attrib, "label", ""),
      AttrGet(el.attrib, "value", ""), AttrGet(el.attrib, "x", ""),
      AttrGet(el.attrib, "y", ""), AttrGet(el.attrib, "width", ""),
      AttrGet(el.attrib, "height", "")>>

----------------------------------------------------------------------------
(* Specification SpecElem: the per-element functions applied to one element *)

Absent == "<absent>"

ElemTags == {"XCUIElementTypeButton", "XCUIElementTypeStaticText", "XCUIElementTypeOther"}
IdentityValues == {Absent, "", "a", "b"}
StateValues == {Absent, "true", "TRUE", "false", ""}

\* the attribute list holding the keys of f that are not Absent
AttribOf(keys, f) ==
    LET all == [i \in 1..Len(keys) |-> <<keys[i], f[keys[i]]>>]
    IN  SelectSeq(all, LAMBDA kv : kv[2] # Absent)

ElemKeys == <<"name", "label", "value", "enabled", "visible">>

ElemAttribs ==
    {AttribOf(ElemKeys,
              [k \in Range(ElemKeys) |->
                  CASE k = "name" -> n [] k = "label" -> l [] k = "value" -> v
                    [] k = "enabled" -> e [] OTHER -> s]) :
        n \in IdentityValues, l \in IdentityValues, v \in IdentityValues,
        e \in StateValues, s \in StateValues}

InitElem ==
    /\ pc = "elem_candidates"
    /\ elem \in {Element(tg, a, 0) : tg \in ElemTags, a \in ElemAttribs}
    /\ classification = ""
    /\ candidates = <<>>
    /\ IdleXPath /\ IdleHash /\ IdleCapture /\ IdleExtract

CallGetCandidates ==
    /\ pc = "elem_candidates"
    /\ candidates' = get_ios_class_chain_candidates(elem)
    /\ pc' = "elem_classify"
    /\ UNCHANGED <<elem, classification, xpathVars, hashVars, captureVars, extractVars>>

CallClassifyElement ==
    /\ pc = "elem_classify"
    /\ classification' = classify_element(elem)
    /\ pc' = "elem_done"
    /\ UNCHANGED <<elem, candidates, xpathVars, hashVars, captureVars, extractVars>>

NextElem == CallGetCandidates \/ CallClassifyElement

SpecElem == InitElem /\ [][NextElem]_vars

\* the four rules of the contract, for given readings of "present"
RuleCandidates(el, has_name, has_label, has_value) ==
    LET name == AttrGet(el.attrib, "name", "")
        label == AttrGet(el.attrib, "label", "")
        value == AttrGet(el.attrib, "value", "")
        rule1 == IF has_name THEN <<<<"**/", el.tag, "[@name='", name, "']">>>> ELSE <<>>
        rule2 == IF has_label /\ (~has_name \/ label # name)
                 THEN <<<<"**/", el.tag, "[@label='", label, "']">>>> ELSE <<>>
        rule3 == IF has_value THEN <<<<"**/", el.tag, "[@value='", value, "']">>>> ELSE <<>>
        rule4 == IF has_name /\ has_label
                 THEN <<<<"**/", el.tag, "[@name='", name, "' and @label='", label, "']">>>>
                 ELSE <<>>
    IN  rule1 \o rule2 \o rule3 \o rule4

CandidatesComputed == pc \in {"elem_classify", "elem_done"}

NonEmpty(attrib, key) ==
    \E i \in 1..Len(attrib) : attrib[i][1] = key /\ attrib[i][2] # ""

TrueSpellings == {"true", "True", "TRUE"}

StateOk(attrib, key) ==
    \A i \in 1..Len(attrib) : attrib[i][1] = key => attrib[i][2] \in TrueSpellings

\* C6: classify_element returns Interactive iff the tag is actionable and
\* enabled and visible are each absent or "true" in any letter case;
\* otherwise it returns Non-Interactive.
C6_ClassifyIff ==
    pc = "elem_done" =>
        /\ classification \in {"Interactive", "Non-Interactive"}
        /\ (classification = "Interactive") <=>
               /\ elem.tag \in INTERACTIVE_TAGS
               /\ StateOk(elem.attrib, "enabled")
               /\ StateOk(elem.attrib, "visible")

C6_Witness ==
    /\ pc = "elem_done"
    /\ classification = "Interactive"
    /\ AttrGet(elem.attrib, "enabled", "") = "TRUE"
    /\ ~HasAttr(elem.attrib, "visible")

----------------------------------------------------------------------------
(* save_app_pages.py: compute_filtered_hash                                 *)
(*                                                                         *)
(* A page source (the raw markup string of the driver) is the markup of a  *)
(* document followed by trailing text: [doc, trailing].  It parses iff the *)
(* trailing text is empty (text after the document element is a           *)
(* ParseError), and then parses to doc.                                    *)

PageSource(doc, trailing) == [doc |-> doc, trailing |-> trailing]

Parses(page_source) == page_source.trailing = ""

\* ET.fromstring(page_source), for a page source that parses
fromstring(page_source) == page_source.doc

\* one attribute of a start tag:  key="value"
AttrText(kv) == <<" ", kv[1], "=\"", kv[2], "\"">>

RECURSIVE AttribText(_)
AttribText(attrib) ==
    IF attrib = <<>> THEN <<>> ELSE AttrText(Head(attrib)) \o AttribText(Tail(attrib))

\* ET.tostring: the markup of the subtree of element n; attributes are
\* written in the order the element holds them
RECURSIVE ElementText(_, _)
ElementText(t, n) ==
    LET RECURSIVE ChildrenText(_)
        ChildrenText(cs) ==
            IF cs = <<>> THEN <<>>
            ELSE ElementText(t, Head(cs)) \o ChildrenText(Tail(cs))
        kids == Children(t, n)
    IN  IF kids = <<>>
        THEN <<"<", t[n].tag>> \o AttribText(t[n].attrib) \o <<" />">>
        ELSE <<"<", t[n].tag>> \o AttribText(t[n].attrib) \o <<">">>
             \o ChildrenText(kids) \o <<"</", t[n].tag, ">">>

tostring(t) == ElementText(t, 1)

\* the raw text of a page source
RawText(page_source) ==
    tostring(page_source.doc)
        \o (IF page_source.trailing = "" THEN <<>> ELSE <<page_source.trailing>>)

\* hashlib.md5(...).hexdigest(), taken as injective on the bytes hashed
md5(bytes) == <<"md5">> \o bytes

\* mutant: 'value' deleted on the root element only
RemoveValueRootOnly(t) ==
    [i \in 1..Len(t) |->
        IF i = 1
        THEN [t[i] EXCEPT !.attrib = SelectSeq(@, LAMBDA kv : kv[1] # "value")]
        ELSE t[i]]

\* for elem in root.iter(): if 'value' in elem.attrib: del elem.attrib['value']
RemoveValue(t) ==
    [i \in 1..Len(t) |->
        IF i \in Range(Iter(t, 1))
        THEN [t[i] EXCEPT !.attrib = SelectSeq(@, LAMBDA kv : kv[1] # "value")]
        ELSE t[i]]

compute_filtered_hash(page_source) ==
    IF ~Parses(page_source)
    THEN md5(RawText(page_source))
    ELSE LET root == fromstring(page_source)
             filtered_source == tostring(RemoveValue(root))
         IN  md5(filtered_source)

----------------------------------------------------------------------------
(* Specification SpecHash: compute_filtered_hash applied to two page sources *)

\* the elements 1..n form one tree, numbered in document order
IsDocument(t) == Len(t) >= 1 /\ Iter(t, 1) = Indices(t)

Documents(n, tags, attribs) ==
    {t \in {[i \in 1..n |-> Element(tg[i], at[i], p[i])] :
              tg \in [1..n -> tags], at \in [1..n -> attribs],
              p \in ParentVectors(n)} : IsDocument(t)}

HashTags == {"A", "B"}
HashSizes == {1, 2}

\* attribute lists: with and without 'value', with two values of 'value' and
\* of 'name', and with the same attributes in both orders
HashAttribs ==
    {<<>>,
     <<<<"name", "a">>>>, <<<<"name", "b">>>>,
     <<<<"value", "a">>>>, <<<<"value", "b">>>>,
     <<<<"name", "a">>, <<"label", "a">>>>, <<<<"label", "a">>, <<"name", "a">>>>,
     <<<<"name", "a">>, <<"value", "a">>>>, <<<<"value", "a">>, <<"name", "a">>>>}

HashDocuments == UNION {Documents(n, HashTags, HashAttribs) : n \in HashSizes}

HashSources ==
    {PageSource(d, "") : d \in HashDocuments}
    \cup {PageSource(d, "trailing") : d \in Documents(1, HashTags, HashAttribs)}

InitHash ==
    /\ pc = "hash_call"
    /\ src1 \in HashSources
    /\ src2 \in HashSources
    /\ digest1 = <<>>
    /\ digest2 = <<>>
    /\ IdleXPath /\ IdleElem /\ IdleCapture /\ IdleExtract

CallComputeFilteredHash ==
    /\ pc = "hash_call"
    /\ digest1' = compute_filtered_hash(src1)
    /\ digest2' = compute_filtered_hash(src2)
    /\ pc' = "hash_done"
    /\ UNCHANGED <<src1, src2, xpathVars, elemVars, captureVars, extractVars>>

NextHash == CallComputeFilteredHash

SpecHash == InitHash /\ [][NextHash]_vars

SameShape(t1, t2) ==
    /\ Len(t1) = Len(t2)
    /\ \A i \in 1..Len(t1) : t1[i].tag = t2[i].tag /\ t1[i].parent = t2[i].parent

OtherAttribs(attrib) == SelectSeq(attrib, LAMBDA kv : kv[1] # "value")

\* the two trees are identical except for 'value' attributes
SameExceptValue(t1, t2) ==
    /\ SameShape(t1, t2)
    /\ \A i \in 1..Len(t1) : OtherAttribs(t1[i].attrib) = OtherAttribs(t2[i].attrib)

\* the two trees differ in a tag, in the child structure or in the presence
\* or the value of an attribute other than 'value'
DiffersElsewhere(t1, t2) ==
    \/ ~SameShape(t1, t2)
    \/ \E i \in 1..Len(t1) :
          Range(OtherAttribs(t1[i].attrib)) # Range(OtherAttribs(t2[i].attrib))

BothParse == pc = "hash_done" /\ Parses(src1) /\ Parses(src2)

\* C1: two snapshots that parse and are identical except for 'value'
\* attributes (changed, added or removed on any elements) get equal digests;
\* two that differ in a tag, the child structure or another attribute get
\* different digests.
C1_ValueInvariance ==
    BothParse =>
        /\ SameExceptValue(src1.doc, src2.doc) => digest1 = digest2
        /\ DiffersElsewhere(src1.doc, src2.doc) => digest1 # digest2

C1_Witness ==
    /\ BothParse
    /\ Len(src1.doc) = 2
    /\ SameExceptValue(src1.doc, src2.doc)
    /\ AttrGet(src1.doc[2].attrib, "value", "") = "a"
    /\ AttrGet(src2.doc[2].attrib, "value", "") = "b"
    /\ HasAttr(src1.doc[1].attrib, "value") /\ ~HasAttr(src2.doc[1].attrib, "value")
    /\ digest1 = digest2

\* the two trees have the same tags, the same child order and, element for
\* element, the same attribute key/value mapping
SameMapping(t1, t2) ==
    /\ SameShape(t1, t2)
    /\ \A i \in 1..Len(t1) : Range(t1[i].attrib) = Range(t2[i].attrib)

\* C9: the digest does not depend on the order in which the attributes of
\* an element are listed.
C9_AttributeOrderIrrelevant ==
    (BothParse /\ SameMapping(src1.doc, src2.doc)) => digest1 = digest2

----------------------------------------------------------------------------
(* save_app_pages.py: the capture loop                                      *)
(*                                                                         *)
(* files maps the number n of page_<n>.xml to the text written to it;      *)
(* observed lists the page sources fetched in the cycles where the target  *)
(* app was in the foreground.                                              *)

MaxCycles == 4

APP_BUNDLE_ID == "ANY BUNDLE ID"

Apps == {APP_BUNDLE_ID, "com.apple.springboard"}

EmptyFile == PageSource(<<>>, "")

\* mutant: every fetched page source is taken as new
AlwaysNew(hash, saved) == TRUE

\* current_filtered_hash not in saved_hashes
NotSaved(hash, saved) == hash \notin saved

\* mutant: the value-stripped document is written instead of the raw text
WriteFiltered(fs, count, page_source) ==
    [n \in DOMAIN fs \cup {count} |->
        IF n = count
        THEN PageSource(RemoveValue(page_source.doc), page_source.trailing)
        ELSE fs[n]]

\* open(f"page_{page_count}.xml", "w") ... file.write(page_source)
WritePage(fs, count, page_source) ==
    [n \in DOMAIN fs \cup {count} |-> IF n = count THEN page_source ELSE fs[n]]

CaptureSources ==
    {PageSource(<<Element("A", <<<<"value", "a">>>>, 0)>>, ""),
     PageSource(<<Element("A", <<<<"value", "b">>>>, 0)>>, ""),
     PageSource(<<Element("A", <<<<"name", "a">>>>, 0)>>, ""),
     PageSource(<<Element("A", <<>>, 0), Element("B", <<<<"value", "a">>>>, 1)>>, ""),
     PageSource(<<Element("A", <<>>, 0), Element("B", <<>>, 1)>>, ""),
     PageSource(<<Element("A", <<<<"value", "a">>>>, 0)>>, "trailing")}

InitCapture ==
    /\ pc = "capture_loop"
    /\ saved_hashes = {}
    /\ page_count = 0
    /\ files = <<>>
    /\ observed = <<>>
    /\ IdleXPath /\ IdleElem /\ IdleHash /\ IdleExtract

\* one iteration of the while loop
PollCycle ==
    /\ pc = "capture_loop"
    /\ Len(observed) < MaxCycles
    /\ \E current_app \in Apps, page_source \in CaptureSources :
          IF current_app = APP_BUNDLE_ID
          THEN LET current_filtered_hash == compute_filtered_hash(page_source)
               IN  /\ observed' = Append(observed, page_source)
                   /\ IF NotSaved(current_filtered_hash, saved_hashes)
                      THEN /\ saved_hashes' = saved_hashes \cup {current_filtered_hash}
                           /\ page_count' = page_count + 1
                           /\ files' = WritePage(files, page_count + 1, page_source)
                      ELSE UNCHANGED <<saved_hashes, page_count, files>>
          ELSE UNCHANGED captureVars
    /\ UNCHANGED <<pc, xpathVars, elemVars, hashVars, extractVars>>

\* KeyboardInterrupt: the loop ends at the statement it has reached, which
\* may lie inside the saving of a new page
Interrupt ==
    /\ pc = "capture_loop"
    /\ pc' = "capture_stopped"
    /\ \/ UNCHANGED captureVars
       \/ \E page_source \in CaptureSources :
             LET current_filtered_hash == compute_filtered_hash(page_source)
             IN  /\ NotSaved(current_filtered_hash, saved_hashes)
                 /\ saved_hashes' = saved_hashes \cup {current_filtered_hash}
                 /\ \/ UNCHANGED <<page_count, files>>
                    \/ page_count' = page_count + 1 /\ UNCHANGED files
                    \/ /\ page_count' = page_count + 1
                       /\ files' = WritePage(files, page_count + 1, EmptyFile)
                 /\ UNCHANGED observed
    /\ UNCHANGED <<xpathVars, elemVars, hashVars, extractVars>>

NextCapture == PollCycle \/ Interrupt

SpecCapture == InitCapture /\ [][NextCapture]_vars

\* positions in obs of the first occurrence of each fingerprint, ascending
FirstOccurrences(obs) ==
    SelectSeq(Indices(obs),
              LAMBDA i : \A j \in 1..(i - 1) :
                  compute_filtered_hash(obs[j]) # compute_filtered_hash(obs[i]))

BetweenCycles == pc = "capture_loop"

C2_State ==
    BetweenCycles =>
        LET first == FirstOccurrences(observed)
        IN  /\ saved_hashes = {compute_filtered_hash(observed[i]) : i \in 1..Len(observed)}
            /\ page_count = Len(first)
            /\ DOMAIN files = 1..Len(first)
            /\ \A n \in 1..Len(first) :
                  compute_filtered_hash(files[n]) = compute_filtered_hash(observed[first[n]])

C2_Step ==
    /\ saved_hashes \subseteq saved_hashes'
    /\ (/\ BetweenCycles /\ BetweenCycles'
        /\ observed' # observed
        /\ compute_filtered_hash(observed'[Len(observed')]) \in saved_hashes)
       => UNCHANGED <<saved_hashes, page_count, files>>

\* C2: over the foreground cycles, a fingerprint is inserted and a file saved
\* exactly once per distinct fingerprint, at its first occurrence and in
\* first-occurrence order; a cycle with a seen fingerprint leaves
\* saved_hashes, page_count and the files unchanged; saved_hashes never shrinks.
C2_NoveltyOncePerFingerprint == [](C2_State) /\ [][C2_Step]_vars

C2_Witness ==
    /\ BetweenCycles
    /\ Len(observed) = 4
    /\ page_count = 2
    /\ compute_filtered_hash(observed[1]) = compute_filtered_hash(observed[3])
    /\ observed[1] # observed[3]
    /\ compute_filtered_hash(observed[2]) # compute_filtered_hash(observed[1])
    /\ compute_filtered_hash(observed[4]) = compute_filtered_hash(observed[2])

C10_State ==
    BetweenCycles =>
        LET first == FirstOccurrences(observed)
        IN  /\ page_count = Cardinality(saved_hashes)
            /\ DOMAIN files = 1..page_count
            /\ Len(first) = page_count
            /\ \A n \in 1..page_count : files[n] = observed[first[n]]

C10_Step ==
    \A n \in DOMAIN files : n \in DOMAIN files' /\ files'[n] = files[n]

\* C10: between poll cycles page_count is the number of saved fingerprints,
\* the files are page_1 .. page_<page_count>, page_<n> holds the raw text of
\* the n-th new snapshot, and no step changes a file already written.
C10_FilesMatchCounter == [](C10_State) /\ [][C10_Step]_vars

C10_Witness ==
    /\ BetweenCycles
    /\ page_count = 2
    /\ Len(observed) = 3
    /\ HasAttr(files[1].doc[1].attrib, "value")
    /\ files[1] # observed[2]
    /\ compute_filtered_hash(observed[2]) = compute_filtered_hash(observed[1])
    /\ files[2] = observed[3]

----------------------------------------------------------------------------
(* extract_paths.py: main                                                   *)
(*                                                                         *)
(* listing is os.listdir(INPUT_FOLDER) and position the number of its      *)
(* entries the for loop has taken.  A file is [base, ext, content]: its    *)
(* name is base.ext and content is its text, a page source.  reports and   *)
(* master_file list the writes made to the Output folder, in order.        *)

MaxFiles == 2

File(base, ext, content) == [base |-> base, ext |-> ext, content |-> content]

\* filename.lower().endswith(".xml")
IsXmlName(file) == Lower(file.ext) = "xml"

\* os.path.join(OUTPUT_FOLDER, f"{base_name}_output.txt")
OutputPath(file) == <<"Output", "/", file.base, "_output.txt">>

get_attributes_summary(el) ==
    LET keys == <<"name", "label", "value", "enabled", "visible">>
        kept == SelectSeq(keys, LAMBDA k : Truthy(el.attrib, k))
    IN  [i \in 1..Len(kept) |-> <<kept[i], "='", AttrGet(el.attrib, kept[i], ""), "'">>]

get_position_summary(el) ==
    LET keys == <<"x", "y", "width", "height">>
        kept == SelectSeq(keys, LAMBDA k : HasAttr(el.attrib, k))
    IN  [i \in 1..Len(kept) |-> <<kept[i], "=", AttrGet(el.attrib, kept[i], "")>>]

build_interactive_line(el, path, chain) ==
    [tag |-> el.tag,
     name |-> AttrGet(el.attrib, "name", ""),
     label |-> AttrGet(el.attrib, "label", ""),
     value |-> AttrGet(el.attrib, "value", ""),
     x |-> AttrGet(el.attrib, "x", ""),
     y |-> AttrGet(el.attrib, "y", ""),
     width |-> AttrGet(el.attrib, "width", ""),
     height |-> AttrGet(el.attrib, "height", ""),
     xpath |-> path,
     candidates |-> chain]

\* the element description block of the per-file report
ElementBlock(t, e) ==
    [tag |-> t[e].tag,
     attributes |-> get_attributes_summary(t[e]),
     position |-> get_position_summary(t[e]),
     classification |-> classify_element(t[e]),
     xpath |-> get_xpath(t, e, 1),
     candidates |-> get_ios_class_chain_candidates(t[e])]

\* the body of "for elem in root.iter()": acc holds the report lines, the
\* key set and the master items
RECURSIVE ScanElements(_, _, _)
ScanElements(t, elems, acc) ==
    IF elems = <<>> THEN acc
    ELSE LET e == Head(elems)
             block == ElementBlock(t, e)
             unique_key == create_unique_key(t[e])
             fresh == block.classification = "Interactive" /\ unique_key \notin acc.keys
         IN  ScanElements(t, Tail(elems),
                 [lines |-> Append(acc.lines, block),
                  keys |-> IF fresh THEN acc.keys \cup {unique_key} ELSE acc.keys,
                  items |-> IF fresh
                            THEN Append(acc.items,
                                        build_interactive_line(t[e], block.xpath,
                                                               block.candidates))
                            ELSE acc.items])

\* mutant: a file that fails to parse ends the run
AbortOnParseError ==
    /\ pc' = "extract_done"
    /\ UNCHANGED <<listing, position, master_interactive_set,
                   master_interactive_items, reports, master_file>>

\* "continue": the loop goes on with the next entry
Continue ==
    /\ position' = position + 1
    /\ UNCHANGED <<pc, listing, master_interactive_set, master_interactive_items,
                   reports, master_file>>

\* except Exception: print(...); continue
SkipUnparsable == Continue

\* one iteration of "for filename in os.listdir(INPUT_FOLDER)"
ProcessFile ==
    /\ pc = "extract_loop"
    /\ position < Len(listing)
    /\ LET file == listing[position + 1]
       IN  IF ~IsXmlName(file) THEN Continue
           ELSE IF ~Parses(file.content) THEN SkipUnparsable
           ELSE LET root == fromstring(file.content)
                    done == ScanElements(root, Iter(root, 1),
                                [lines |-> <<>>,
                                 keys |-> master_interactive_set,
                                 items |-> master_interactive_items])
                IN  /\ master_interactive_set' = done.keys
                    /\ master_interactive_items' = done.items
                    /\ reports' = Append(reports,
                                         [path |-> OutputPath(file),
                                          header |-> <<file.base, ".", file.ext>>,
                                          blocks |-> done.lines])
                    /\ position' = position + 1
                    /\ UNCHANGED <<pc, listing, master_file>>
    /\ UNCHANGED <<xpathVars, elemVars, hashVars, captureVars>>

\* after the loop: the master file is written
WriteMasterFile ==
    /\ pc = "extract_loop"
    /\ position = Len(listing)
    /\ master_file' = Append(master_file, master_interactive_items)
    /\ pc' = "extract_done"
    /\ UNCHANGED <<listing, position, master_interactive_set,
                   master_interactive_items, reports>>
    /\ UNCHANGED <<xpathVars, elemVars, hashVars, captureVars>>

NextExtract == ProcessFile \/ WriteMasterFile

\* the elements of the input files
Button(attrib) == Element("XCUIElementTypeButton", attrib, 1)

ExtractElems ==
    {Button(<<<<"name", "a">>, <<"x", "1">>>>),
     Button(<<<<"x", "1">>, <<"name", "a">>, <<"value", "">>>>),
     Button(<<<<"name", "a">>, <<"x", "2">>>>),
     Button(<<<<"name", "a">>, <<"x", "1">>, <<"enabled", "false">>>>)}

Application == Element("XCUIElementTypeApplication", <<>>, 0)

ExtractDocuments ==
    {<<Application>>}
    \cup {<<Application, e>> : e \in ExtractElems}
    \cup {<<Application, e, [f EXCEPT !.parent = p]>> :
             e \in ExtractElems, f \in ExtractElems, p \in {1, 2}}

ExtractSources ==
    {PageSource(d, "") : d \in ExtractDocuments}
    \cup {PageSource(<<Application>>, "trailing")}

\* the files of the Input folder: two markup files whose names differ in the
\* case of the extension, and a file with another extension, with text that
\* parses or not
InputFiles ==
    {File("a", "xml", c) : c \in ExtractSources}
    \cup {File("a", "XML", c) : c \in ExtractSources}
    \cup {File("notes", "txt", PageSource(<<Application>>, "trailing")),
          File("notes", "txt",
               PageSource(<<Application, Button(<<<<"name", "b">>>>)>>, ""))}

Listings ==
    UNION {{l \in [1..n -> InputFiles] :
              \A i, j \in 1..n : i # j => <<l[i].base, l[i].ext>> # <<l[j].base, l[j].ext>>} :
           n \in 0..MaxFiles}

InitExtract ==
    /\ pc = "extract_loop"
    /\ listing \in Listings
    /\ position = 0
    /\ master_interactive_set = {}
    /\ master_interactive_items = <<>>
    /\ reports = <<>>
    /\ master_file = <<>>
    /\ IdleXPath /\ IdleElem /\ IdleHash /\ IdleCapture

SpecExtract == InitExtract /\ [][NextExtract]_vars

\* the entries of the listing that are markup files and parse
Parsed(file) == IsXmlName(file) /\ Parses(file.content)

\* <<i, e>> for every element e classified Interactive of every parsed file
\* i among the first k entries, in processing order
RECURSIVE InteractiveNodes(_)
InteractiveNodes(k) ==
    IF k = 0 THEN <<>>
    ELSE LET file == listing[k]
             doc == file.content.doc
             found == SelectSeq(Iter(doc, 1),
                                LAMBDA e : classify_element(doc[e]) = "Interactive")
         IN  InteractiveNodes(k - 1)
             \o (IF Parsed(file) THEN [n \in 1..Len(found) |-> <<k, found[n]>>] ELSE <<>>)

NodeAt(ie) == listing[ie[1]].content.doc[ie[2]]

KeyAttributes == {"name", "label", "value", "x", "y", "width", "height"}

\* the two elements agree on (tag, name, label, value, x, y, width, height)
SameKey(a, b) ==
    /\ a.tag = b.tag
    /\ \A k \in KeyAttributes : AttrGet(a.attrib, k, "") = AttrGet(b.attrib, k, "")

\* the positions in nodes of the first element of each key
FirstOfKey(nodes) ==
    SelectSeq(Indices(nodes),
              LAMBDA i : \A j \in 1..(i - 1) : ~SameKey(NodeAt(nodes[j]), NodeAt(nodes[i])))

\* the master entry of element e of file i
EntryOf(ie) ==
    LET doc == listing[ie[1]].content.doc
    IN  build_interactive_line(doc[ie[2]], get_xpath(doc, ie[2], 1),
                               get_ios_class_chain_candidates(doc[ie[2]]))

IsPrefix(s, t) == Len(s) <= Len(t) /\ \A i \in 1..Len(s) : s[i] = t[i]

InExtraction == pc \in {"extract_loop", "extract_done"}

C3_State ==
    InExtraction =>
        LET nodes == InteractiveNodes(position)
            first == FirstOfKey(nodes)
        IN  /\ Len(master_interactive_items) = Len(first)
            /\ Cardinality(master_interactive_set) = Len(first)
            /\ \A n \in 1..Len(first) :
                  master_interactive_items[n] = EntryOf(nodes[first[n]])

C3_Step == IsPrefix(master_interactive_items, master_interactive_items')

\* C3: the master catalog holds one entry per distinct key (tag, name, label,
\* value, x, y, width, height) among the Interactive elements of the files
\* processed, in order of first encounter, each built from the first element
\* with its key; an entry once appended is never changed or removed.
C3_CatalogDedup == [](C3_State) /\ [][C3_Step]_vars

C3_Witness ==
    /\ pc = "extract_done"
    /\ Len(listing) = 2
    /\ Len(reports) = 2
    /\ Len(InteractiveNodes(2)) = 4
    /\ Len(master_interactive_items) = 2
    /\ HasAttr(NodeAt(InteractiveNodes(2)[1]).attrib, "value")
    /\ ~HasAttr(NodeAt(InteractiveNodes(2)[3]).attrib, "value")
    /\ SameKey(NodeAt(InteractiveNodes(2)[1]), NodeAt(InteractiveNodes(2)[3]))

\* the entries among the first k of the listing that are parsed
ParsedEntries(k) == SelectSeq(Indices(listing), LAMBDA i : i <= k /\ Parsed(listing[i]))

C8_State ==
    InExtraction =>
        LET parsed == ParsedEntries(position)
        IN  /\ Len(reports) = Len(parsed)
            /\ \A n \in 1..Len(parsed) :
                  /\ reports[n].header
                        = <<listing[parsed[n]].base, ".", listing[parsed[n]].ext>>
                  /\ reports[n].path
                        = <<"Output", "/", listing[parsed[n]].base, "_output.txt">>
                  /\ Len(reports[n].blocks) = Len(listing[parsed[n]].content.doc)
            /\ pc = "extract_loop" => master_file = <<>>
            /\ pc = "extract_done" =>
                  /\ position = Len(listing)
                  /\ master_file = <<master_interactive_items>>
                  /\ Len(master_interactive_items)
                        = Len(FirstOfKey(InteractiveNodes(Len(listing))))

C8_Step ==
    (/\ pc = "extract_loop" /\ position < Len(listing)
     /\ IsXmlName(listing[position + 1])
     /\ ~Parses(listing[position + 1].content))
    => /\ pc' = "extract_loop"
       /\ position' = position + 1
       /\ UNCHANGED <<reports, master_interactive_set, master_interactive_items,
                      master_file>>

====
